---- MODULE Spec2Model ----
(***************************************************************************)
(* Model of the URL expander (src/main.cpp): the shared curl easy handle,  *)
(* expand_url, the Lambda handler expand_url_handler and the batch loop of *)
(* main.                                                                   *)
(*                                                                         *)
(* Strings that the program takes apart (input lines, tokens) are          *)
(* sequences of pieces; a piece is the delimiter " " or a delimiter-free   *)
(* piece of text.  A URL is such a sequence too, so that a token cut out   *)
(* of an input line can be handed to the transfer as the URL.              *)
(***************************************************************************)
EXTENDS Integers, Sequences, FiniteSets, TLC

VARIABLES
  curl,        \* the global easy handle: per-request options and transfer info
  performs,    \* number of curl_easy_perform calls made on the handle so far
  call,        \* record of the most recent expand_url call (arguments, outcome)
  request,     \* payload of the most recent Lambda invocation
  response,    \* invocation_response of the most recent Lambda invocation
  is_lambda,   \* main: AWS_LAMBDA_FUNCTION_NAME is set
  pc,          \* position of main: "running", "exited" or "terminated"
  exit_code,   \* status main returned (-1 while it has not returned)
  consumed,    \* number of stdin lines consumed by the batch loop
  out          \* what the batch loop did with the last line it read

vars == <<curl, performs, call, request, response, is_lambda, pc, exit_code,
          consumed, out>>

----------------------------------------------------------------------------
(* Bounds of the model *)

MaxPerforms == 2      \* transfers made on the shared handle in one behaviour
MaxRedirectsArg == 3  \* largest explicit max_redirects of a request
MaxFields == 3        \* fields in one line of standard input
MaxLines == 2         \* lines read from standard input

----------------------------------------------------------------------------
(* Program constants *)

default_max_redirects == 5
default_max_time_ms == 500

CURLE_OK == 0
CURLE_FAILED_INIT == 2
CURLE_COULDNT_RESOLVE_HOST == 6
CURLE_COULDNT_CONNECT == 7
CURLE_OPERATION_TIMEDOUT == 28
CURLE_TOO_MANY_REDIRECTS == 47

NULL == <<"NULL">>      \* the null char*; no URL and no token equals it

----------------------------------------------------------------------------
(* The servers the transfers talk to: a static set of redirect chains with *)
(* fixed delays.                                                           *)

r3 == <<"r3">>
r2 == <<"r2">>
r1 == <<"r1">>
final == <<"final">>
slow == <<"slow">>      \* answers 200, but its connection takes long to set up
dead == <<"dead">>      \* resolves, but refuses the connection

Urls == {r3, r2, r1, final, slow, dead}

\* Location of the 3xx answer of u, NULL when u answers with a non-redirect
Redirect(u) ==
  IF u = r3 THEN r2
  ELSE IF u = r2 THEN r1
  ELSE IF u = r1 THEN final
  ELSE NULL

Resolvable(u) == u \in Urls
Refuses(u) == u = dead
ConnectMs(u) == IF u = slow THEN 3 ELSE 1
ResponseMs(u) == 1

\* The URL reached after k hops from u (the terminal URL once the chain ends)
RECURSIVE ChainAt(_, _)
ChainAt(u, k) ==
  IF k = 0 \/ Redirect(u) = NULL THEN u ELSE ChainAt(Redirect(u), k - 1)

\* Number of hops of the redirect chain that starts at u
RECURSIVE ChainLength(_)
ChainLength(u) == IF Redirect(u) = NULL THEN 0 ELSE 1 + ChainLength(Redirect(u))

Terminal(u) == ChainAt(u, ChainLength(u))

----------------------------------------------------------------------------
(* The curl easy handle *)

\* curl_easy_init plus the options main sets once: nothing request-specific
\* is configured (no time limits, FOLLOWLOCATION off, MAXREDIRS unlimited).
FreshHandle ==
  [ url |-> NULL, timeout_ms |-> 0, connecttimeout_ms |-> 0,
    followlocation |-> 0, maxredirs |-> -1,
    redirect_url |-> NULL, effective_url |-> NULL ]

\* One request of a transfer and, when the handle follows redirects, the
\* requests after it.  followed counts the redirects followed so far and
\* elapsed the time since the transfer started.
RECURSIVE Transfer(_, _, _, _)
Transfer(h, u, followed, elapsed) ==
  LET afterConnect == elapsed + ConnectMs(u)
      afterResponse == afterConnect + ResponseMs(u)
      End(code, redir, t) ==
        [ code |-> code, redirect_url |-> redir, effective_url |-> u,
          elapsed |-> t ]
  IN
  IF ~Resolvable(u) THEN End(CURLE_COULDNT_RESOLVE_HOST, NULL, elapsed)
  ELSE IF Refuses(u) THEN End(CURLE_COULDNT_CONNECT, NULL, elapsed)
  ELSE IF h.connecttimeout_ms > 0 /\ ConnectMs(u) > h.connecttimeout_ms
    THEN End(CURLE_OPERATION_TIMEDOUT, NULL, elapsed + h.connecttimeout_ms)
  ELSE IF h.timeout_ms > 0 /\ afterResponse > h.timeout_ms
    THEN End(CURLE_OPERATION_TIMEDOUT, NULL, h.timeout_ms)
  ELSE IF Redirect(u) = NULL THEN End(CURLE_OK, NULL, afterResponse)
  ELSE IF h.followlocation = 0
    THEN End(CURLE_OK, Redirect(u), afterResponse)
  ELSE IF h.maxredirs # -1 /\ followed >= h.maxredirs
    THEN End(CURLE_TOO_MANY_REDIRECTS, Redirect(u), afterResponse)
  ELSE Transfer(h, Redirect(u), followed + 1, afterResponse)

\* curl_easy_perform(curl): the code it returns, the time it took and the
\* handle with the transfer info of this transfer
curl_easy_perform(h) ==
  LET t == Transfer(h, h.url, 0, 0)
  IN [ code |-> t.code, elapsed |-> t.elapsed,
       handle |-> [h EXCEPT !.redirect_url = t.redirect_url,
                            !.effective_url = t.effective_url] ]

----------------------------------------------------------------------------
(* expand_url *)

\* SetRequestOptions with the redirect cap one too low
SetRequestOptions_OffByOne(h, url, max_time_ms, max_redirects) ==
  LET h1 == [h EXCEPT !.url = url, !.timeout_ms = max_time_ms]
  IN IF max_redirects > 0
       THEN [h1 EXCEPT !.followlocation = 1, !.maxredirs = max_redirects - 1]
       ELSE h1

\* "Set request-specific options"
SetRequestOptions(h, url, max_time_ms, max_redirects) ==
  LET h1 == [h EXCEPT !.url = url, !.timeout_ms = max_time_ms]
  IN IF max_redirects > 0
       THEN [h1 EXCEPT !.followlocation = 1, !.maxredirs = max_redirects]
       ELSE h1

\* RestoreOptions that leaves FOLLOWLOCATION and MAXREDIRS as the call set them
RestoreOptions_KeepsFollow(h, max_time_ms) ==
  [h EXCEPT !.timeout_ms = max_time_ms,
            !.connecttimeout_ms = max_time_ms]

\* "Restore request-specific options to defaults"
RestoreOptions(h, max_time_ms) ==
  [h EXCEPT !.timeout_ms = max_time_ms,
            !.connecttimeout_ms = max_time_ms,
            !.followlocation = 0,
            !.maxredirs = -1]

\* ExtractUrl that returns CURLE_TOO_MANY_REDIRECTS like any other failure
ExtractUrl_NoCapException(h, res) ==
  LET Ret(code, assigned, url, limit, n) ==
        [ res |-> code, assigned |-> assigned, output_url |-> url,
          reached_redirect_limit |-> limit, getinfos |-> n ]
      both == {"output_url", "reached_redirect_limit"}
  IN
  IF res # CURLE_OK
    THEN Ret(res, {}, <<>>, FALSE, 0)
  ELSE IF h.redirect_url # NULL
    THEN Ret(CURLE_OK, both, h.redirect_url, TRUE, 1)
  ELSE IF h.effective_url # NULL
    THEN Ret(CURLE_OK, both, h.effective_url, FALSE, 2)
  ELSE Ret(CURLE_FAILED_INIT, {}, <<>>, FALSE, 2)

\* ExtractUrl that asks for the effective URL before the redirect URL
ExtractUrl_EffectiveFirst(h, res) ==
  LET Ret(code, assigned, url, limit, n) ==
        [ res |-> code, assigned |-> assigned, output_url |-> url,
          reached_redirect_limit |-> limit, getinfos |-> n ]
      both == {"output_url", "reached_redirect_limit"}
  IN
  IF res # CURLE_OK /\ res # CURLE_TOO_MANY_REDIRECTS
    THEN Ret(res, {}, <<>>, FALSE, 0)
  ELSE IF h.effective_url # NULL
    THEN Ret(CURLE_OK, both, h.effective_url, FALSE, 1)
  ELSE IF h.redirect_url # NULL
    THEN Ret(CURLE_OK, both, h.redirect_url, TRUE, 2)
  ELSE Ret(CURLE_FAILED_INIT, {}, <<>>, FALSE, 2)

\* ExtractUrl without the early return on a failed transfer
ExtractUrl_ExtractsOnFailure(h, res) ==
  LET Ret(code, assigned, url, limit, n) ==
        [ res |-> code, assigned |-> assigned, output_url |-> url,
          reached_redirect_limit |-> limit, getinfos |-> n ]
      both == {"output_url", "reached_redirect_limit"}
  IN
  IF h.redirect_url # NULL
    THEN Ret(CURLE_OK, both, h.redirect_url, TRUE, 1)
  ELSE IF h.effective_url # NULL
    THEN Ret(CURLE_OK, both, h.effective_url, FALSE, 2)
  ELSE Ret(CURLE_FAILED_INIT, {}, <<>>, FALSE, 2)

\* The part of expand_url after the transfer: the code it returns, the
\* output parameters it assigns and their values (an output parameter that
\* is not assigned keeps whatever the caller's variable held), and the
\* number of curl_easy_getinfo calls it makes.
ExtractUrl(h, res) ==
  LET Ret(code, assigned, url, limit, n) ==
        [ res |-> code, assigned |-> assigned, output_url |-> url,
          reached_redirect_limit |-> limit, getinfos |-> n ]
      both == {"output_url", "reached_redirect_limit"}
  IN
  IF res # CURLE_OK /\ res # CURLE_TOO_MANY_REDIRECTS
    THEN Ret(res, {}, <<>>, FALSE, 0)
  ELSE IF h.redirect_url # NULL
    THEN Ret(CURLE_OK, both, h.redirect_url, TRUE, 1)
  ELSE IF h.effective_url # NULL
    THEN Ret(CURLE_OK, both, h.effective_url, FALSE, 2)
  ELSE Ret(CURLE_FAILED_INIT, {}, <<>>, FALSE, 2)

\* expand_url on handle h: the handle it leaves behind and the record of the
\* call.  Both callers pass a fresh empty string as output_url, which is
\* what the record holds while output_url is not in assigned.
expand_url(h, url, max_time_ms, max_redirects) ==
  LET configured == SetRequestOptions(h, url, max_time_ms, max_redirects)
      done == curl_easy_perform(configured)
      restored == RestoreOptions(done.handle, max_time_ms)
      ret == ExtractUrl(restored, done.code)
  IN [ handle |-> restored,
       call |-> [ made |-> TRUE, url |-> url, max_time_ms |-> max_time_ms,
                  max_redirects |-> max_redirects,
                  follow |-> configured.followlocation,
                  perform_res |-> done.code,
                  performs |-> 1,
                  getinfos |-> ret.getinfos,
                  duration_ms |-> done.elapsed,
                  res |-> ret.res,
                  assigned |-> ret.assigned,
                  output_url |-> ret.output_url,
                  reached_redirect_limit |-> ret.reached_redirect_limit ] ]

NoCall ==
  [ made |-> FALSE, url |-> NULL, max_time_ms |-> 0, max_redirects |-> 0,
    follow |-> 0, perform_res |-> CURLE_OK, performs |-> 0, getinfos |-> 0,
    duration_ms |-> 0, res |-> CURLE_OK, assigned |-> {}, output_url |-> <<>>,
    reached_redirect_limit |-> FALSE ]

----------------------------------------------------------------------------
(* expand_url_handler *)

nowhere == <<"x">>      \* a host name that does not resolve

\* JsonValue::WithInt64 / WithString / WithBool
With(obj, key, value) ==
  [k \in DOMAIN obj \cup {key} |-> IF k = key THEN value ELSE obj[k]]

EmptyObject == [k \in {} |-> 0]

ValueExists(v, key) == key \in DOMAIN v

\* JsonView::GetString / GetInt64: the value of the key, the empty string or
\* 0 when the object has no such key
GetString(v, key) == IF key \in DOMAIN v THEN v[key] ELSE <<>>
GetInt64(v, key) == IF key \in DOMAIN v THEN v[key] ELSE 0

\* The payloads of invocation_request: text that does not parse, or a JSON
\* object with any of the three keys
JsonObject(hasUrl, u, hasTime, t, hasRedirects, r) ==
  LET o1 == IF hasUrl THEN With(EmptyObject, "url", u) ELSE EmptyObject
      o2 == IF hasTime THEN With(o1, "max_time_ms", t) ELSE o1
  IN IF hasRedirects THEN With(o2, "max_redirects", r) ELSE o2

Payloads ==
  { [parsed |-> FALSE, json |-> EmptyObject] } \cup
  { [parsed |-> TRUE, json |-> JsonObject(TRUE, u, hasTime, t, hasRedirects, r)] :
      u \in Urls \cup {nowhere},
      hasTime \in BOOLEAN, t \in {0, 2, default_max_time_ms},
      hasRedirects \in BOOLEAN, r \in 0..MaxRedirectsArg } \cup
  { [parsed |-> TRUE, json |-> JsonObject(FALSE, NULL, hasTime, 2, hasRedirects, 1)] :
      hasTime \in BOOLEAN, hasRedirects \in BOOLEAN }

NoPayload == [parsed |-> FALSE, json |-> EmptyObject]

\* RequestRejected without the check for the url key
RequestRejected_ParseOnly(payload) == ~payload.parsed

\* "Validate request": the request is turned away before any argument is read
RequestRejected(payload) ==
  \/ ~payload.parsed
  \/ ~ValueExists(payload.json, "url")

\* invocation_response::failure(message, error_type)
Failure(message, error_type) ==
  [ success |-> FALSE, payload |-> With(EmptyObject, "errorMessage", message),
    type |-> error_type ]

\* ConstructResponse that puts the output arguments into every response
ConstructResponse_AlwaysUrl(res, duration_ms, expanded_url, reached_redirect_limit) ==
  LET timed == With(With(With(EmptyObject, "duration_ms", duration_ms),
                         "expanded_url", expanded_url),
                    "reached_redirect_limit", reached_redirect_limit)
  IN IF res = CURLE_OK
       THEN With(timed, "error_code", 0)
       ELSE With(With(timed, "error_code", res),
                 "error_message", "curl_easy_strerror")

\* "Construct response"
ConstructResponse(res, duration_ms, expanded_url, reached_redirect_limit) ==
  LET timed == With(EmptyObject, "duration_ms", duration_ms)
  IN IF res = CURLE_OK
       THEN With(With(With(timed, "error_code", 0),
                      "expanded_url", expanded_url),
                 "reached_redirect_limit", reached_redirect_limit)
       ELSE With(With(timed, "error_code", res),
                 "error_message", "curl_easy_strerror")

\* expand_url_handler on handle h: the response, and the handle and the call
\* record it leaves behind (performed: the transfers made on the handle)
expand_url_handler(h, last, payload) ==
  IF ~payload.parsed
    THEN [ handle |-> h, call |-> last, performed |-> 0,
           response |-> Failure("Failed to parse input JSON", "InvalidJSON") ]
  ELSE IF RequestRejected(payload)
    THEN [ handle |-> h, call |-> last, performed |-> 0,
           response |-> Failure("Missing URL argument", "InvalidJSON") ]
  ELSE
    LET v == payload.json
        url == GetString(v, "url")
        max_time_ms ==
          IF ValueExists(v, "max_time_ms") THEN GetInt64(v, "max_time_ms")
          ELSE default_max_time_ms
        max_redirects ==
          IF ValueExists(v, "max_redirects") THEN GetInt64(v, "max_redirects")
          ELSE default_max_redirects
        e == expand_url(h, url, max_time_ms, max_redirects)
    IN [ handle |-> e.handle, call |-> e.call, performed |-> e.call.performs,
         response |->
           [ success |-> TRUE, type |-> "application/json",
             payload |-> ConstructResponse(e.call.res, e.call.duration_ms,
                                           e.call.output_url,
                                           e.call.reached_redirect_limit) ] ]

NoResponse == [ success |-> TRUE, type |-> "none", payload |-> EmptyObject ]

----------------------------------------------------------------------------
(* The batch loop of main *)

\* The fields that occur in the lines of standard input: a URL that
\* redirects, a host name that does not resolve, two numbers, and text that
\* only starts with a number
Fields == {r3, nowhere, <<"2">>, <<"9">>, <<"9", "x">>}

RECURSIVE FieldSeqs(_)
FieldSeqs(n) ==
  IF n = 0 THEN {<<>>}
  ELSE LET shorter == FieldSeqs(n - 1)
       IN shorter \cup { Append(s, f) : s \in { t \in shorter : Len(t) = n - 1 },
                                         f \in Fields }

\* The text of a line: every field preceded by the gap, a delimiter after
\* the last field
RECURSIVE Join(_, _)
Join(fields, gap) ==
  IF fields = <<>> THEN <<" ">>
  ELSE gap \o Head(fields) \o Join(Tail(fields), <<" ">> \o gap)

\* Lines of up to MaxFields fields, separated by one or by two delimiters;
\* with no field, the empty line and lines of delimiters only
Lines ==
  {<<>>} \cup { Join(fields, gap) : fields \in FieldSeqs(MaxFields),
                                    gap \in {<<>>, <<" ">>} }

\* s.find(delimiter) for a one-piece delimiter: the first position that holds
\* it, 0 for npos
RECURSIVE Find(_, _, _)
Find(s, delimiter, from) ==
  IF from > Len(s) THEN 0
  ELSE IF s[from] = delimiter THEN from
  ELSE Find(s, delimiter, from + 1)

RECURSIVE SplitLoop(_, _, _)
SplitLoop(s, delimiter, res) ==
  LET pos == Find(s, delimiter, 1)
  IN IF pos # 0
       THEN LET token == SubSeq(s, 1, pos - 1)
            IN SplitLoop(SubSeq(s, pos + 1, Len(s)), delimiter,
                         IF Len(token) > 0 THEN Append(res, token) ELSE res)
       ELSE IF Len(s) > 0 THEN Append(res, s) ELSE res

split(s) == SplitLoop(s, " ", <<>>)

IsDigit(c) == c \in {"0", "1", "2", "3", "4", "5", "6", "7", "8", "9"}
DigitValue(c) ==
  CASE c = "0" -> 0 [] c = "1" -> 1 [] c = "2" -> 2 [] c = "3" -> 3
    [] c = "4" -> 4 [] c = "5" -> 5 [] c = "6" -> 6 [] c = "7" -> 7
    [] c = "8" -> 8 [] c = "9" -> 9

\* The value of the longest prefix of digits of str read from position i on
RECURSIVE Digits(_, _, _)
Digits(str, i, acc) ==
  IF i > Len(str) \/ ~IsDigit(str[i]) THEN acc
  ELSE Digits(str, i + 1, 10 * acc + DigitValue(str[i]))

\* std::stoll / std::stoi: the number the string starts with; they throw
\* std::invalid_argument when it starts with none.  (A field of Fields
\* holds no number that overflows either result type.)
StringToInteger(str) ==
  IF Len(str) = 0 \/ ~IsDigit(str[1])
    THEN [thrown |-> TRUE, value |-> 0]
    ELSE [thrown |-> FALSE, value |-> Digits(str, 1, 0)]

stoll(str) == StringToInteger(str)
stoi(str) == StringToInteger(str)

\* One iteration of the for loop over the lines of standard input
ProcessLine(h, last, line) ==
  LET parts == split(line)
      time == IF Len(parts) > 1 THEN stoll(parts[2])
              ELSE [thrown |-> FALSE, value |-> default_max_time_ms]
      redirects == IF Len(parts) > 2 THEN stoi(parts[3])
                   ELSE [thrown |-> FALSE, value |-> default_max_redirects]
  IN
  IF Len(parts) = 0
    THEN [ handle |-> h, call |-> last, performed |-> 0, out |-> "skipped" ]
  ELSE IF time.thrown \/ redirects.thrown
    THEN [ handle |-> h, call |-> last, performed |-> 0, out |-> "exception" ]
  ELSE
    LET e == expand_url(h, parts[1], time.value, redirects.value)
    IN [ handle |-> e.handle, call |-> e.call, performed |-> e.call.performs,
         out |-> IF e.call.res = CURLE_OK THEN "stdout" ELSE "stderr" ]

----------------------------------------------------------------------------
(* The state machine *)

Init ==
  /\ curl = FreshHandle
  /\ performs = 0
  /\ call = NoCall
  /\ request = NoPayload
  /\ response = NoResponse
  /\ is_lambda \in BOOLEAN
  /\ pc = "running"
  /\ exit_code = -1
  /\ consumed = 0
  /\ out = "none"

\* run_handler(expand_url_handler) serves one invocation
Invoke ==
  /\ is_lambda
  /\ pc = "running"
  /\ \E payload \in Payloads :
       LET r == expand_url_handler(curl, call, payload)
       IN /\ performs + r.performed <= MaxPerforms
          /\ curl' = r.handle
          /\ call' = r.call
          /\ performs' = performs + r.performed
          /\ request' = payload
          /\ response' = r.response
  /\ UNCHANGED <<is_lambda, pc, exit_code, consumed, out>>

\* std::getline delivers a line and the loop body runs on it; an exception
\* thrown by the body is caught nowhere, so it ends the process
ReadLine ==
  /\ ~is_lambda
  /\ pc = "running"
  /\ consumed < MaxLines
  /\ \E line \in Lines :
       LET r == ProcessLine(curl, call, line)
       IN /\ curl' = r.handle
          /\ call' = r.call
          /\ performs' = performs + r.performed
          /\ out' = r.out
          /\ pc' = IF r.out = "exception" THEN "terminated" ELSE "running"
  /\ consumed' = consumed + 1
  /\ UNCHANGED <<request, response, is_lambda, exit_code>>

\* std::getline reports the end of standard input: cleanup and return 0
EndOfInput ==
  /\ ~is_lambda
  /\ pc = "running"
  /\ pc' = "exited"
  /\ exit_code' = 0
  /\ UNCHANGED <<curl, performs, call, request, response, is_lambda,
                 consumed, out>>

Next == Invoke \/ ReadLine \/ EndOfInput

Spec == Init /\ [][Next]_vars

----------------------------------------------------------------------------
(* Properties *)

\* The transfer of the last expand_url call ended without a failure other
\* than the redirect cap
TransferCompleted ==
  call.made /\ call.perform_res \in {CURLE_OK, CURLE_TOO_MANY_REDIRECTS}

Resolved(url, limit) ==
  /\ call.res = CURLE_OK
  /\ call.assigned = {"output_url", "reached_redirect_limit"}
  /\ call.output_url = url
  /\ call.reached_redirect_limit = limit

\* The last Lambda invocation carried a payload that parsed and had a url
Served ==
  is_lambda /\ request.parsed /\ "url" \in DOMAIN request.json

\* C1: an expand_url call whose transfer does not fail and whose redirect
\* chain has at most max_redirects hops returns CURLE_OK with
\* reached_redirect_limit = false and the terminal URL of the chain.
C1_ChainWithinLimitResolves ==
  (TransferCompleted /\ ChainLength(call.url) <= call.max_redirects)
    => Resolved(Terminal(call.url), FALSE)

C1_Witness ==
  /\ TransferCompleted
  /\ call.url = r3 /\ call.max_redirects = 3
  /\ Resolved(final, FALSE)

\* C2: an expand_url call whose redirect chain has more than max_redirects
\* hops, and whose transfer fails in no other way, returns CURLE_OK with
\* reached_redirect_limit = true and the URL max_redirects + 1 hops down the
\* chain (the target of hop number max_redirects + 1); expand_url never
\* returns CURLE_TOO_MANY_REDIRECTS.
C2_ChainBeyondLimitIsQualifiedSuccess ==
  /\ (TransferCompleted /\ ChainLength(call.url) > call.max_redirects)
       => Resolved(ChainAt(call.url, call.max_redirects + 1), TRUE)
  /\ call.res # CURLE_TOO_MANY_REDIRECTS

C2_Witness ==
  /\ call.made /\ call.perform_res = CURLE_TOO_MANY_REDIRECTS
  /\ call.url = r3 /\ call.max_redirects = 2
  /\ Resolved(final, TRUE)

\* C3: an expand_url call with max_redirects = 0 performs its transfer with
\* FOLLOWLOCATION off; when the URL answers with a redirect to X the result
\* is (X, reached_redirect_limit = true), when it answers with a non-redirect
\* the result is (the requested URL, reached_redirect_limit = false).
C3_ZeroRedirectsDoesNotFollow ==
  (call.made /\ call.max_redirects = 0) =>
    /\ call.follow = 0
    /\ call.perform_res # CURLE_TOO_MANY_REDIRECTS
    /\ call.perform_res = CURLE_OK =>
         IF Redirect(call.url) # NULL
           THEN Resolved(Redirect(call.url), TRUE)
           ELSE Resolved(call.url, FALSE)

C3_Witness ==
  /\ call.made /\ call.max_redirects = 0 /\ performs = 2
  /\ call.url = r3 /\ Resolved(r2, TRUE)

\* The payload of the response to r3 with max_redirects = 1, apart from
\* duration_ms
C4_Response(expanded_url) ==
  /\ response.success
  /\ DOMAIN response.payload =
       {"duration_ms", "error_code", "expanded_url", "reached_redirect_limit"}
  /\ response.payload["error_code"] = 0
  /\ response.payload["expanded_url"] = expanded_url
  /\ response.payload["reached_redirect_limit"] = TRUE

C4_Scenario ==
  /\ Served /\ TransferCompleted
  /\ request.json["url"] = r3
  /\ "max_redirects" \in DOMAIN request.json
  /\ request.json["max_redirects"] = 1

\* C4 as stated: for r3 -> r2 -> r1 -> final requested at r3 with
\* max_redirects = 1 the response is {error_code: 0, expanded_url: r2,
\* reached_redirect_limit: true}.
C4_Original == C4_Scenario => C4_Response(r2)

\* C4 amended: for r3 -> r2 -> r1 -> final requested at r3 with
\* max_redirects = 1, when the transfer does not time out or fail otherwise,
\* the response is {error_code: 0, expanded_url: r1,
\* reached_redirect_limit: true}: the URL returned is the target of the first
\* redirect that was not followed, max_redirects + 1 hops from the requested
\* URL.
C4_LimitReturnsNextHop == C4_Scenario => C4_Response(r1)

C4_Witness == C4_Scenario /\ C4_Response(r1)

\* C5: every expand_url call makes exactly one transfer, and when the
\* transfer fails with anything but CURLE_TOO_MANY_REDIRECTS, expand_url
\* returns that very code, makes no curl_easy_getinfo call and assigns no
\* output parameter.
C5_FailureSurfacedVerbatim ==
  call.made =>
    /\ call.performs = 1
    /\ ~TransferCompleted =>
         /\ call.res = call.perform_res
         /\ call.getinfos = 0
         /\ call.assigned = {}

C5_Witness ==
  /\ call.made /\ call.perform_res = CURLE_OPERATION_TIMEDOUT
  /\ call.res = CURLE_OPERATION_TIMEDOUT /\ call.url = r3

\* C6: the response to a payload that parses and has a url holds duration_ms
\* and error_code; expanded_url and reached_redirect_limit are present iff
\* error_code = 0, error_message is present iff error_code # 0.
C6_ResponseShape ==
  Served =>
    LET keys == DOMAIN response.payload
    IN /\ response.success
       /\ {"duration_ms", "error_code"} \subseteq keys
       /\ ("expanded_url" \in keys) <=> (response.payload["error_code"] = 0)
       /\ ("reached_redirect_limit" \in keys) <=> (response.payload["error_code"] = 0)
       /\ ("error_message" \in keys) <=> (response.payload["error_code"] # 0)

C6_Witness ==
  /\ Served
  /\ response.payload["error_code"] = CURLE_COULDNT_CONNECT
  /\ "error_message" \in DOMAIN response.payload

\* C7: an invocation whose payload does not parse or has no url key is
\* answered with a failure of type InvalidJSON, makes no transfer (the count
\* of curl_easy_perform calls stays as it was) and leaves the handle as it
\* was.
C7_InvalidPayloadTouchesNothing ==
  [][ (is_lambda /\ (~request'.parsed \/ "url" \notin DOMAIN request'.json))
        => /\ ~response'.success
           /\ response'.type = "InvalidJSON"
           /\ performs' = performs
           /\ curl' = curl ]_vars

C7_Witness ==
  /\ is_lambda /\ request.parsed /\ "url" \notin DOMAIN request.json
  /\ ~response.success /\ response.type = "InvalidJSON"
  /\ performs = 1

\* C8: in batch mode the process only ever ends by reaching the end of
\* standard input and returning 0; no line, whatever its fields, ends it.
C8_BatchNeverAborts ==
  ~is_lambda =>
    /\ pc \in {"running", "exited"}
    /\ pc = "exited" => exit_code = 0

\* C9: after an expand_url call has returned, every request-specific option
\* of the handle is back at its default: no time limit, no connect time
\* limit, FOLLOWLOCATION off, MAXREDIRS unset.
C9_OptionsResetAfterCall ==
  call.made =>
    /\ curl.timeout_ms = FreshHandle.timeout_ms
    /\ curl.connecttimeout_ms = FreshHandle.connecttimeout_ms
    /\ curl.followlocation = FreshHandle.followlocation
    /\ curl.maxredirs = FreshHandle.maxredirs

\* C10: the outcome of every expand_url call on the shared handle (code,
\* URL, reached_redirect_limit) is the outcome the same call has as the first
\* call on a fresh handle.
C10_OutcomeIndependentOfEarlierCalls ==
  call.made =>
    LET first == expand_url(FreshHandle, call.url, call.max_time_ms,
                            call.max_redirects).call
    IN /\ call.res = first.res
       /\ call.assigned = first.assigned
       /\ call.output_url = first.output_url
       /\ call.reached_redirect_limit = first.reached_redirect_limit

====
